---- MODULE Spec2Model ----
(***************************************************************************)
(* Model of xontrib/cmd_done.py: the prompt field long_cmd_duration, the   *)
(* duration formatter secs_to_readable, the per-OS window-focus probe and   *)
(* the notification dispatch notify_user.                                  *)
(*                                                                         *)
(* Representation.                                                         *)
(*  - A Python str / bytes value is a sequence of one-character strings,   *)
(*    so that str(), lower(), strip(), split() and "in" are computed and   *)
(*    not assumed.                                                         *)
(*  - A Python float number of seconds (the history timestamps come from   *)
(*    time.time()) is an integer count of half seconds: Secs(12) is 12.0   *)
(*    and Secs(2) + 1 is 2.5.  round() is Python's round-half-to-even.      *)
(*  - None / an unset environment variable is the empty sequence <<>> for  *)
(*    string-valued variables (the code tests them for truthiness only),   *)
(*    and an optional value is <<>> (absent) or <<v>> (present).           *)
(***************************************************************************)
EXTENDS Integers, Sequences, FiniteSets, TLC

VARIABLES
    system,                 \* platform.system()
    env,                    \* the xsh.env variables the module reads
    LONG_DURATION,          \* module global, read once at import (line 8)
    TRIGGER_NOTIFICATION,   \* module global, read once at import (line 9)
    tss, rtns, inps,        \* xsh.history.tss / .rtns / .inps
    last,                   \* outcome of the latest call of long_cmd_duration
    sent,                   \* noti.send() calls made for the last command
    secs_in, readable_out   \* argument and result of a secs_to_readable call

vars == <<system, env, LONG_DURATION, TRIGGER_NOTIFICATION, tss, rtns, inps,
          last, sent, secs_in, readable_out>>

----------------------------------------------------------------------------
(* Bounds *)

MaxHist == 2        \* commands kept in the history
MaxSent == 2        \* notifications counted per command
MaxDurSteps == 1    \* command durations are 0, 6.5, ..., 6.5 * MaxDurSteps s
MaxSecs == 3700     \* largest number of seconds handed to the formatter

----------------------------------------------------------------------------
(* Python values *)

None == <<>>
Some(v) == <<v>>

\* n seconds as a float, in half seconds
Secs(n) == 2 * n

Range(s) == {s[i] : i \in DOMAIN s}

Digits == <<"0", "1", "2", "3", "4", "5", "6", "7", "8", "9">>

\* str(n) for an int n >= 0
RECURSIVE str(_)
str(n) ==
    IF n < 10 THEN <<Digits[n + 1]>>
    ELSE str(n \div 10) \o <<Digits[(n % 10) + 1]>>

\* round(x) of a float x given in half seconds: ties go to the even integer
round(x) ==
    LET q == x \div 2
    IN  IF x % 2 = 0 THEN q
        ELSE IF q % 2 = 0 THEN q ELSE q + 1

----------------------------------------------------------------------------
(* secs_to_readable, lines 33-53 *)

secs_to_readable_no_hours(secs) ==
    LET s == round(secs)
        minutes == s \div 60
        seconds == s % 60
    IN  (IF minutes # 0 THEN str(minutes) \o <<"m">> ELSE <<>>)
        \o (IF minutes # 0 \/ seconds # 0 THEN str(seconds) \o <<"s">> ELSE <<>>)

secs_to_readable_zero_units_dropped(secs) ==
    LET s == round(secs)
        hours == s \div 3600
        remainder == s % 3600
        minutes == remainder \div 60
        seconds == remainder % 60
    IN  (IF hours # 0 THEN str(hours) \o <<"h">> ELSE <<>>)
        \o (IF minutes # 0 THEN str(minutes) \o <<"m">> ELSE <<>>)
        \o (IF seconds # 0 THEN str(seconds) \o <<"s">> ELSE <<>>)

secs_to_readable(secs) ==
    LET s == round(secs)
        hours == s \div 3600
        remainder == s % 3600
        minutes == remainder \div 60
        seconds == remainder % 60
        r1 == IF hours # 0 THEN str(hours) \o <<"h">> ELSE <<>>
        r2 == IF hours # 0 \/ minutes # 0
              THEN r1 \o str(minutes) \o <<"m">> ELSE r1
        r3 == IF hours # 0 \/ minutes # 0 \/ seconds # 0
              THEN r2 \o str(seconds) \o <<"s">> ELSE r2
    IN  r3

----------------------------------------------------------------------------
(* str methods the module uses *)

UpperCase == <<"A", "B", "C", "D", "E", "F", "G", "H", "I", "J", "K", "L", "M",
               "N", "O", "P", "Q", "R", "S", "T", "U", "V", "W", "X", "Y", "Z">>
LowerCase == <<"a", "b", "c", "d", "e", "f", "g", "h", "i", "j", "k", "l", "m",
               "n", "o", "p", "q", "r", "s", "t", "u", "v", "w", "x", "y", "z">>

ToLower ==
    [c \in Range(UpperCase) |->
        LowerCase[CHOOSE i \in DOMAIN UpperCase : UpperCase[i] = c]]

LowerChar(c) == IF c \in DOMAIN ToLower THEN ToLower[c] ELSE c

\* s.lower()
lower(s) == [i \in 1..Len(s) |-> LowerChar(s[i])]

Whitespace == {" ", "\n", "\t"}

\* s.strip()
RECURSIVE strip(_)
strip(s) ==
    IF s = <<>> THEN s
    ELSE IF Head(s) \in Whitespace THEN strip(Tail(s))
    ELSE IF s[Len(s)] \in Whitespace THEN strip(SubSeq(s, 1, Len(s) - 1))
    ELSE s

\* s.split(sep) for a one-character sep: the list of the pieces
RECURSIVE split(_, _)
split(s, sep) ==
    IF s = <<>> THEN << <<>> >>
    ELSE LET rest == split(Tail(s), sep)
         IN  IF Head(s) = sep THEN << <<>> >> \o rest
             ELSE << <<Head(s)>> \o rest[1] >> \o Tail(rest)

\* sub in s
contains(sub, s) ==
    \E i \in 0..(Len(s) - Len(sub)) : SubSeq(s, i + 1, i + Len(sub)) = sub

\* str(b) of a bytes value b of printable characters without a single quote
bytes_str(b) == <<"b", "'">> \o b \o <<"'">>

----------------------------------------------------------------------------
(* Strings of the source and of the runs explored *)

iterm_app == <<"i", "t", "e", "r", "m", ".", "a", "p", "p">>
iTerm2 == <<"i", "T", "e", "r", "m", "2">>
apple_terminal ==
    <<"a", "p", "p", "l", "e", "_", "t", "e", "r", "m", "i", "n", "a", "l">>
Terminal == <<"T", "e", "r", "m", "i", "n", "a", "l">>
vscode == <<"v", "s", "c", "o", "d", "e">>
Code == <<"C", "o", "d", "e">>
pycharm == <<"p", "y", "c", "h", "a", "r", "m">>
PyCharm == <<"P", "y", "C", "h", "a", "r", "m">>
kate == <<"k", "a", "t", "e">>
Kate == <<"K", "a", "t", "e">>
xonsh == <<"x", "o", "n", "s", "h">>
in_front == <<"(", "i", "n", " ", "f", "r", "o", "n", "t", ")">>
Failed == <<"F", "a", "i", "l", "e", "d">>
Done == <<"D", "o", "n", "e">>
in_word == <<" ", "i", "n", " ">>

\* values the environment takes in the runs explored
iTerm_app == <<"i", "T", "e", "r", "m", ".", "a", "p", "p">>    \* $TERM_PROGRAM
WezTerm == <<"W", "e", "z", "T", "e", "r", "m">>                \* $TERM_PROGRAM
wezterm_gui == <<"w", "e", "z", "t", "e", "r", "m", "-", "g", "u", "i">>
BundleId == <<"c", "o", "m", ".", "x">>
WinId == <<"7">>
OtherWinId == <<"8">>

----------------------------------------------------------------------------
(* Configuration read from xsh.env, lines 8-24 *)

\* xsh.env.get(key, default) of an optional value
Get(value, default) == IF value = None THEN default ELSE value[1]

defaults ==
    (iterm_app :> iTerm2) @@ (apple_terminal :> Terminal) @@ (vscode :> Code)
    @@ (pycharm :> PyCharm) @@ (kate :> Kate)

\* a user's $XONTRIB_CD_TERM_PROGRAM_MAP: one more terminal, key in mixed case
UserMap == (WezTerm :> wezterm_gui)

\* {key.lower(): val for key, val in maps.items()}
lower_keys(maps) ==
    [k \in {lower(key) : key \in DOMAIN maps} |->
        maps[CHOOSE key \in DOMAIN maps : lower(key) = k]]

_term_program_mapping(e) ==
    lower_keys(Get(e.XONTRIB_CD_TERM_PROGRAM_MAP, defaults))

\* maps.get(term_program.lower(), term_program).  The lru_cache on it keeps the
\* first result per argument; the environment does not change after Init, so
\* every call computes the value the cache holds.
_darwin_get_app_name(e, term_program) ==
    LET maps == _term_program_mapping(e)
    IN  IF lower(term_program) \in DOMAIN maps
        THEN maps[lower(term_program)]
        ELSE term_program

NOTIFICATION_APP_NAME == xonsh

----------------------------------------------------------------------------
(* External tools: one run is [ok |-> the command exited with status 0,      *)
(* out |-> its standard output]; sp.check_output raises when ok is FALSE.   *)

Run(ok, out) == [ok |-> ok, out |-> out]
failed_run == Run(FALSE, <<>>)

\* xdotool getactivewindow
XdotoolRuns ==
    {failed_run, Run(TRUE, WinId \o <<"\n">>), Run(TRUE, OtherWinId \o <<"\n">>)}

\* lsappinfo find bundleID=...: the application found, or nothing
LsappinfoFindRuns ==
    {failed_run,
     Run(TRUE, <<>>),
     Run(TRUE, <<"A", "S", "N", "-", "\"">> \o iTerm2 \o <<"\"", ":", "\n">>)}

\* lsappinfo info -app ...
LsappinfoInfoRuns ==
    {failed_run,
     Run(TRUE, <<>>),
     Run(TRUE, <<"\"">> \o iTerm2 \o <<"\"", " ">> \o in_front \o <<"\n">>)}

----------------------------------------------------------------------------
(* The focus probe, lines 56-129.  What the external tools answer is not    *)
(* decided by the program, so a probe is the set of its possible outcomes,  *)
(* one per answer of the tools it invokes.  An outcome: raised (an          *)
(* exception left the probe), focused (the value returned, when none did),  *)
(* appname (the name resolved on Darwin), calls (the tools invoked).        *)

Outcome(raised, focused, appname, calls) ==
    [raised |-> raised, focused |-> focused, appname |-> appname, calls |-> calls]

is_linux_system(sys) == sys = "Linux"
is_darwin_system(sys) == sys = "Darwin"

\* lines 72-76: the decoded, stripped output, or None after the except clause
_xdotool_window_id(xdo) ==
    IF xdo.ok THEN Some(strip(xdo.out)) ELSE None

\* lines 79-88
_linux_is_app_window_focused(e) ==
    LET winid == e.WINDOWID
    IN  IF winid = <<>>
        THEN {Outcome(FALSE, FALSE, <<>>, {})}
        ELSE {Outcome(FALSE, _xdotool_window_id(xdo) = Some(winid), <<>>,
                      {"xdotool"}) : xdo \in XdotoolRuns}

\* lines 91-119 for one answer of each lsappinfo command
_darwin_probe(e, find, info) ==
    LET bundle_id == e.CFBundleIdentifier
        \* line 97: str(out).split("\"")
        parts == split(bytes_str(strip(find.out)), "\"")
        by_bundle == IF bundle_id # <<>> THEN parts[2] ELSE <<>>
        term == e.TERM_PROGRAM
        appname == IF by_bundle # <<>> THEN by_bundle
                   ELSE IF term # <<>> THEN _darwin_get_app_name(e, term)
                   ELSE <<>>
        calls1 == IF bundle_id # <<>> THEN {"lsappinfo find"} ELSE {}
    IN  IF bundle_id # <<>> /\ ~find.ok
        THEN Outcome(TRUE, FALSE, <<>>, calls1)         \* line 96 raises
        ELSE IF bundle_id # <<>> /\ Len(parts) < 2
        THEN Outcome(TRUE, FALSE, <<>>, calls1)         \* line 97: IndexError
        ELSE IF appname = <<>>
        THEN Outcome(FALSE, FALSE, <<>>, calls1)        \* line 111
        ELSE IF ~info.ok                                \* line 113 raises
        THEN Outcome(TRUE, FALSE, appname, calls1 \cup {"lsappinfo info"})
        ELSE Outcome(FALSE, contains(in_front, info.out), appname,
                     calls1 \cup {"lsappinfo info"})

\* lines 91-119
_darwin_is_app_window_focused(e) ==
    {_darwin_probe(e, find, info) :
        find \in LsappinfoFindRuns, info \in LsappinfoInfoRuns}

is_app_window_focused_unknown_as_darwin(sys, e) ==
    IF is_linux_system(sys) THEN _linux_is_app_window_focused(e)
    ELSE _darwin_is_app_window_focused(e)

\* lines 122-129
is_app_window_focused(sys, e) ==
    IF is_darwin_system(sys) THEN _darwin_is_app_window_focused(e)
    ELSE IF is_linux_system(sys) THEN _linux_is_app_window_focused(e)
    ELSE {Outcome(FALSE, FALSE, <<>>, {})}

----------------------------------------------------------------------------
(* notify_user and long_cmd_duration, lines 132-161 *)

\* What one call of long_cmd_duration did: raised (an exception left it),
\* result (the value returned: None or a string), probed / probe (the focus
\* probe's outcome when notify_user ran it), noti (the notification sent).
Call(raised, result, probed, probe, noti) ==
    [called |-> TRUE, raised |-> raised, result |-> result, probed |-> probed,
     probe |-> probe, noti |-> noti]

NoProbe == Outcome(FALSE, FALSE, <<>>, {})

NoCall ==
    [called |-> FALSE, raised |-> FALSE, result |-> None, probed |-> FALSE,
     probe |-> NoProbe, noti |-> None]

\* hist.xs[-1]
Last(xs) == xs[Len(xs)]

message_always_done(rtn, readable) == Done \o in_word \o readable

\* line 144
message(rtn, readable) ==
    (IF rtn # 0 THEN Failed ELSE Done) \o in_word \o readable

\* lines 139-145
Notify(cmd, rtn, readable) ==
    [application_name |-> NOTIFICATION_APP_NAME,
     title |-> cmd,
     message |-> message(rtn, readable)]

notify_user_ignores_focus(readable) ==
    {[probe |-> probe,
      noti |-> IF probe.raised THEN None
               ELSE Some(Notify(Last(inps), Last(rtns), readable))] :
        probe \in is_app_window_focused(system, env)}

\* lines 132-145: per outcome of the probe of line 136, the probe and the
\* notification sent, if any
notify_user(readable) ==
    LET rtn == Last(rtns)
        cmd == Last(inps)
    IN  {[probe |-> probe,
          noti |-> IF probe.raised \/ probe.focused THEN None
                   ELSE Some(Notify(cmd, rtn, readable))] :
            probe \in is_app_window_focused(system, env)}

\* line 154
interval(ts) == ts[2] - ts[1]

\* line 156
is_long(ivl) == ivl > Secs(LONG_DURATION)

\* lines 148-161: the possible outcomes of one call
long_cmd_duration ==
    IF tss = <<>> THEN {Call(FALSE, None, FALSE, NoProbe, None)}
    ELSE
        LET ivl == interval(Last(tss))
            readable == secs_to_readable(ivl)
        IN  IF ~is_long(ivl) THEN {Call(FALSE, None, FALSE, NoProbe, None)}
            ELSE IF ~TRIGGER_NOTIFICATION
            THEN {Call(FALSE, Some(readable), FALSE, NoProbe, None)}
            ELSE {Call(n.probe.raised,
                       IF n.probe.raised THEN None ELSE Some(readable),
                       TRUE, n.probe, n.noti) : n \in notify_user(readable)}

----------------------------------------------------------------------------
(* State machine *)

Systems == {"Linux", "Darwin", "Windows"}

Env(winid, bundle, term, map) ==
    [WINDOWID |-> winid, CFBundleIdentifier |-> bundle, TERM_PROGRAM |-> term,
     XONTRIB_CD_TERM_PROGRAM_MAP |-> map]

\* The environments explored: each platform with the variables its probe
\* reads, set or unset; a terminal on any other platform may set
\* $TERM_PROGRAM.  On Darwin $TERM_PROGRAM and the map are read only when no name came
\* from the bundle identifier.
Envs(sys) ==
    IF sys = "Linux"
    THEN {Env(w, <<>>, <<>>, None) : w \in {<<>>, WinId}}
    ELSE IF sys = "Darwin"
    THEN {Env(<<>>, <<>>, t, m) :
            t \in {<<>>, iTerm_app, WezTerm}, m \in {None, Some(UserMap)}}
         \cup {Env(<<>>, BundleId, t, None) : t \in {<<>>, iTerm_app}}
    ELSE {Env(<<>>, <<>>, t, None) : t \in {<<>>, vscode}}

\* command durations, in half seconds
Durations == {13 * k : k \in 0..MaxDurSteps}

Commands == {"ls", "make"}
ExitCodes == {0, 1}

\* the clock when the next command starts: the previous command's end
Now == IF tss = <<>> THEN 0 ELSE Last(tss)[2]

Init ==
    /\ system \in Systems
    /\ env \in Envs(system)
    /\ \E v \in {None, Some(0)} : LONG_DURATION = Get(v, 5)
    /\ \E v \in {None, Some(FALSE)} : TRIGGER_NOTIFICATION = Get(v, TRUE)
    /\ tss = <<>>
    /\ rtns = <<>>
    /\ inps = <<>>
    /\ last = NoCall
    /\ sent = 0
    /\ secs_in = 0
    /\ readable_out = None

\* The host shell ran a command and appended it to its history.
CommandDone ==
    /\ Len(tss) < MaxHist
    /\ \E d \in Durations, rtn \in ExitCodes, cmd \in Commands :
        /\ tss' = Append(tss, <<Now, Now + d>>)
        /\ rtns' = Append(rtns, rtn)
        /\ inps' = Append(inps, cmd)
    /\ last' = NoCall
    /\ sent' = 0
    /\ UNCHANGED <<system, env, LONG_DURATION, TRIGGER_NOTIFICATION, secs_in,
                   readable_out>>

\* The host renders the prompt and evaluates the field long_cmd_duration.
Render ==
    /\ sent < MaxSent
    /\ \E call \in long_cmd_duration :
        /\ last' = call
        /\ sent' = IF call.noti # None THEN sent + 1 ELSE sent
    /\ UNCHANGED <<system, env, LONG_DURATION, TRIGGER_NOTIFICATION, tss, rtns,
                   inps, secs_in, readable_out>>

Next == CommandDone \/ Render

Spec == Init /\ [][Next]_vars

----------------------------------------------------------------------------
(* The formatter alone, on every input up to MaxSecs seconds *)

InitFormat ==
    /\ system = "Linux"
    /\ env = Env(<<>>, <<>>, <<>>, None)
    /\ LONG_DURATION = 5
    /\ TRIGGER_NOTIFICATION = TRUE
    /\ tss = <<>>
    /\ rtns = <<>>
    /\ inps = <<>>
    /\ last = NoCall
    /\ sent = 0
    /\ secs_in \in 0..Secs(MaxSecs)
    /\ readable_out = None

Format ==
    /\ readable_out = None
    /\ readable_out' = Some(secs_to_readable(secs_in))
    /\ UNCHANGED <<system, env, LONG_DURATION, TRIGGER_NOTIFICATION, tss, rtns,
                   inps, last, sent, secs_in>>

NextFormat == Format

SpecFormat == InitFormat /\ [][NextFormat]_vars

----------------------------------------------------------------------------
(* Properties *)

\* end - start of the most recent command, in half seconds
Elapsed == tss[Len(tss)][2] - tss[Len(tss)][1]

OverThreshold == tss # <<>> /\ Elapsed > 2 * LONG_DURATION

\* C1: long_cmd_duration returns an absent value when the history is empty or
\* the last command took no longer than the threshold, and otherwise returns
\* secs_to_readable(end - start), whatever the focus state and the
\* notification flag are.
C1_PromptValue ==
    last.called =>
        /\ ~last.raised
        /\ last.result = IF OverThreshold
                         THEN Some(secs_to_readable(Elapsed)) ELSE None

C1_Reached == last.called /\ last.raised /\ OverThreshold

Formatted(n) == readable_out # None /\ secs_in = Secs(n)

\* C2 as stated: 0 -> "", 100 -> "1m40s", 3661 -> "1h1m1s", 59 -> "59s" and
\* 3600 -> "1h0m".
C2_AsStated ==
    /\ Formatted(0) => readable_out[1] = <<>>
    /\ Formatted(100) => readable_out[1] = <<"1", "m", "4", "0", "s">>
    /\ Formatted(3661) => readable_out[1] = <<"1", "h", "1", "m", "1", "s">>
    /\ Formatted(59) => readable_out[1] = <<"5", "9", "s">>
    /\ Formatted(3600) => readable_out[1] = <<"1", "h", "0", "m">>

\* C2, amended: 0 -> "", 100 -> "1m40s", 3661 -> "1h1m1s", 59 -> "59s" and
\* 3600 -> "1h0m0s".
C2_Examples ==
    /\ Formatted(0) => readable_out[1] = <<>>
    /\ Formatted(100) => readable_out[1] = <<"1", "m", "4", "0", "s">>
    /\ Formatted(3661) => readable_out[1] = <<"1", "h", "1", "m", "1", "s">>
    /\ Formatted(59) => readable_out[1] = <<"5", "9", "s">>
    /\ Formatted(3600) => readable_out[1] = <<"1", "h", "0", "m", "0", "s">>

C2_Witness == Formatted(3600)

DigitValue(c) == (CHOOSE i \in DOMAIN Digits : Digits[i] = c) - 1

\* the <<value, unit>> pairs a duration string spells out, read left to right
RECURSIVE ParseUnits(_, _)
ParseUnits(chars, acc) ==
    IF chars = <<>> THEN <<>>
    ELSE IF Head(chars) \in Range(Digits)
    THEN ParseUnits(Tail(chars), 10 * acc + DigitValue(Head(chars)))
    ELSE << <<acc, Head(chars)>> >> \o ParseUnits(Tail(chars), 0)

\* C3: for a whole number s >= 0 of seconds, the hour part appears iff
\* hours > 0, the minute part iff hours > 0 or minutes > 0, the second part iff
\* any of the three is non-zero, each part carries its own value, so no unit
\* with value 0 appears unless a higher unit does, and 0 gives "".
C3_UnitOmission ==
    (readable_out # None /\ secs_in % 2 = 0) =>
        LET s == secs_in \div 2
            h == s \div 3600
            m == (s % 3600) \div 60
            sec == s % 60
            parts == ParseUnits(readable_out[1], 0)
            units == [i \in DOMAIN parts |-> parts[i][2]]
        IN  /\ units = (IF h > 0 THEN <<"h">> ELSE <<>>)
                       \o (IF h > 0 \/ m > 0 THEN <<"m">> ELSE <<>>)
                       \o (IF s > 0 THEN <<"s">> ELSE <<>>)
            /\ \A i \in DOMAIN parts :
                parts[i][1] = CASE parts[i][2] = "h" -> h
                                [] parts[i][2] = "m" -> m
                                [] parts[i][2] = "s" -> sec
            /\ \A i \in DOMAIN parts :
                parts[i][1] = 0 => i > 1
            /\ s = 0 => readable_out[1] = <<>>

C3_Witness == Formatted(3660) /\ Len(readable_out[1]) = 6

\* C4: a notification is sent only if the last command exceeded the threshold,
\* notifications are enabled and the probe inside notify_user reported
\* not-focused; when the probe reports focused, nothing is sent and the prompt
\* value is still the formatted duration.
C4_NotifyOnlyUnfocused ==
    /\ last.noti # None =>
        /\ OverThreshold
        /\ TRIGGER_NOTIFICATION
        /\ last.probed /\ ~last.probe.raised /\ ~last.probe.focused
    /\ (last.probed /\ ~last.probe.raised /\ last.probe.focused) =>
        /\ last.noti = None
        /\ last.result = Some(secs_to_readable(Elapsed))

C4_Witness ==
    /\ last.probed /\ last.probe.focused
    /\ last.noti = None
    /\ last.result = Some(<<"6", "s">>)

\* C5: no command causes more than one notification send, however often the
\* prompt field is evaluated before the next command completes.
C5_AtMostOneSend == sent <= 1

C5_Reached == sent = 2 /\ last.noti # None

\* C6: a notification's title is the input text of the most recent command and
\* its message is "Failed in <d>" for a non-zero exit code and "Done in <d>"
\* for zero, <d> being the prompt value returned in the same render.
C6_NotificationText ==
    last.noti # None =>
        /\ last.result # None
        /\ last.noti[1].title = inps[Len(inps)]
        /\ last.noti[1].message =
            (IF rtns[Len(rtns)] # 0
             THEN <<"F", "a", "i", "l", "e", "d", " ", "i", "n", " ">>
             ELSE <<"D", "o", "n", "e", " ", "i", "n", " ">>)
            \o last.result[1]

C6_Witness ==
    /\ last.noti # None
    /\ Len(inps) = 2 /\ inps[1] # inps[2]
    /\ rtns = <<0, 1>>
    /\ last.noti[1].message =
        <<"F", "a", "i", "l", "e", "d", " ", "i", "n", " ", "6", "s">>

\* C7: on every platform an exception of an external tool is caught inside the
\* probe, which returns not-focused; none reaches notify_user or the render.
C7_ProbeNeverRaises ==
    last.called => (~last.raised /\ ~last.probe.raised)

C7_Reached == system = "Darwin" /\ last.probed /\ last.probe.raised

\* C8: on a platform that is neither Linux nor Darwin the probe returns not
\* focused without invoking a tool, so every render of a command over the
\* threshold with notifications enabled sends a notification.
C8_OtherSystemAlwaysNotifies ==
    (system \notin {"Linux", "Darwin"} /\ last.called) =>
        /\ last.probe.calls = {}
        /\ ~last.probe.focused /\ ~last.raised
        /\ (OverThreshold /\ TRIGGER_NOTIFICATION) =>
            (last.probed /\ last.noti # None)

C8_Witness ==
    /\ system = "Windows" /\ env.TERM_PROGRAM # <<>>
    /\ last.probed /\ last.noti # None

UserKeys ==
    IF env.XONTRIB_CD_TERM_PROGRAM_MAP = None THEN {}
    ELSE {lower(k) : k \in DOMAIN env.XONTRIB_CD_TERM_PROGRAM_MAP[1]}

\* C9: the name table is the user's map merged with the built-in defaults: a
\* built-in key the user's map does not mention still resolves to its built-in
\* name, whatever the case of $TERM_PROGRAM.
C9_DefaultsKept ==
    (/\ system = "Darwin" /\ last.probed /\ ~last.probe.raised
     /\ env.CFBundleIdentifier = <<>>
     /\ lower(env.TERM_PROGRAM) \in DOMAIN defaults
     /\ lower(env.TERM_PROGRAM) \notin UserKeys) =>
        last.probe.appname = defaults[lower(env.TERM_PROGRAM)]

C9_Reached ==
    /\ system = "Darwin" /\ last.probed
    /\ env.XONTRIB_CD_TERM_PROGRAM_MAP # None
    /\ env.TERM_PROGRAM = iTerm_app
    /\ last.probe.appname = iTerm_app

\* C10: the Darwin probe takes the name from the bundle identifier when one is
\* set, otherwise the name $TERM_PROGRAM maps to in the table; with no bundle
\* identifier and $TERM_PROGRAM unset or not a key of the table it reports
\* not-focused without querying the application's foreground state.
C10_NameResolution ==
    (system = "Darwin" /\ last.probed /\ ~last.probe.raised) =>
        LET table == _term_program_mapping(env)
            term == lower(env.TERM_PROGRAM)
        IN  /\ (env.CFBundleIdentifier = <<>> /\ term \in DOMAIN table) =>
                last.probe.appname = table[term]
            /\ (/\ env.CFBundleIdentifier = <<>>
                /\ (env.TERM_PROGRAM = <<>> \/ term \notin DOMAIN table)) =>
                    /\ ~last.probe.focused
                    /\ "lsappinfo info" \notin last.probe.calls

C10_Reached ==
    /\ system = "Darwin" /\ last.probed
    /\ env.CFBundleIdentifier = <<>>
    /\ env.TERM_PROGRAM = WezTerm
    /\ env.XONTRIB_CD_TERM_PROGRAM_MAP = None
    /\ "lsappinfo info" \in last.probe.calls

====
